---------------------------- MODULE Spec2Model ----------------------------
(***************************************************************************)
(* A model of src/cron-builder.ts: the CronValidator static functions and  *)
(* the CronBuilder class with its expression of five measures of time.     *)
(*                                                                         *)
(* JavaScript strings are sequences of one-character strings, so that      *)
(* split, join, the character test and parseInt are computed, not assumed. *)
(* JavaScript arrays are objects with identity: they live in `heap`, and   *)
(* an expression's field holds the identifier of an array.                 *)
(***************************************************************************)
EXTENDS Integers, Sequences, FiniteSets, TLC

VARIABLES
    heap,        \* array identifier -> the array's elements
    expression,  \* builder -> (property name -> array identifier)
    last,        \* the last call made and how it ended
    arg          \* the text the last call of a validator or of new was given

vars == <<heap, expression, last, arg>>

-----------------------------------------------------------------------------
(* Strings                                                                 *)

Digits == <<"0", "1", "2", "3", "4", "5", "6", "7", "8", "9">>

DigitSet == {Digits[i] : i \in 1..Len(Digits)}

IsDigit(c) == c \in DigitSet

DigitVal == [c \in DigitSet |-> (CHOOSE i \in 1..Len(Digits) : Digits[i] = c) - 1]

\* \s of the regular expression, and the white space parseInt skips
IsSpace(c) == c = " "

\* String.prototype.indexOf(c, from) for a one-character c: the first position
\* (1-based) at or after `from` that holds c, 0 if there is none
RECURSIVE Find(_, _, _)
Find(s, c, from) ==
    IF from > Len(s) THEN 0
    ELSE IF s[from] = c THEN from
    ELSE Find(s, c, from + 1)

\* String.prototype.indexOf(c), 0-based, -1 if absent
StrIndexOf(s, c) == Find(s, c, 1) - 1

\* String.prototype.split(sep) for a one-character separator
RECURSIVE SplitFrom(_, _, _)
SplitFrom(s, sep, from) ==
    LET i == Find(s, sep, from) IN
    IF i = 0 THEN <<SubSeq(s, from, Len(s))>>
    ELSE <<SubSeq(s, from, i - 1)>> \o SplitFrom(s, sep, i + 1)

Split(s, sep) == SplitFrom(s, sep, 1)

\* Array.prototype.join(sep) on an array of strings
RECURSIVE JoinFrom(_, _, _)
JoinFrom(parts, sep, i) ==
    IF i > Len(parts) THEN <<>>
    ELSE IF i = Len(parts) THEN parts[i]
    ELSE parts[i] \o <<sep>> \o JoinFrom(parts, sep, i + 1)

Join(parts, sep) == JoinFrom(parts, sep, 1)

\* the first position at or after `from` that holds no white space
RECURSIVE SkipSpace(_, _)
SkipSpace(s, from) ==
    IF from <= Len(s) /\ IsSpace(s[from]) THEN SkipSpace(s, from + 1) ELSE from

\* the value of the decimal digits of s from position `from` on, after acc
RECURSIVE DigitsValue(_, _, _)
DigitsValue(s, from, acc) ==
    IF from <= Len(s) /\ IsDigit(s[from])
    THEN DigitsValue(s, from + 1, acc * 10 + DigitVal[s[from]])
    ELSE acc

\* parseInt(s): leading white space skipped, an optional sign, then the
\* longest run of decimal digits; NaN when there is no digit.
parseInt(s) ==
    LET t    == SkipSpace(s, 1)
        sgn  == t <= Len(s) /\ s[t] \in {"-", "+"}
        neg  == t <= Len(s) /\ s[t] = "-"
        d    == IF sgn THEN t + 1 ELSE t
    IN  IF d > Len(s) \/ ~IsDigit(s[d]) THEN [nan |-> TRUE, n |-> 0]
        ELSE [nan |-> FALSE,
              n |-> IF neg THEN 0 - DigitsValue(s, d, 0) ELSE DigitsValue(s, d, 0)]

\* x < y and x > y of JavaScript numbers: false when x is NaN
NumLess(x, y) == ~x.nan /\ x.n < y
NumGreater(x, y) == ~x.nan /\ x.n > y

-----------------------------------------------------------------------------
(* CronValidator                                                           *)

MeasureOfTimeMap ==
    <<"minute", "hour", "dayOfTheMonth", "month", "dayOfTheWeek">>

MeasureOfTimeValues == {MeasureOfTimeMap[i] : i \in 1..Len(MeasureOfTimeMap)}

validatorObj ==
    [minute        |-> [min |-> 0, max |-> 59],
     hour          |-> [min |-> 0, max |-> 23],
     dayOfTheMonth |-> [min |-> 0, max |-> 30],
     month         |-> [min |-> 1, max |-> 12],
     dayOfTheWeek  |-> [min |-> 0, max |-> 6]]

\* /[^0-9\*\,\s]/.test(value)
AllowedChars == DigitSet \cup {"*", ",", " "}

\* validChars as it would be if the expression tested the first character only
validChars_FirstOnly(value) == Len(value) > 0 /\ value[1] \notin AllowedChars

validChars(value) == \E i \in 1..Len(value) : value[i] \notin AllowedChars

\* RangeCheck as it would be with >= for > in the test against max
RangeCheck_MaxExcluded(measureOfTime, value) ==
    LET n == parseInt(value) IN
    IF NumLess(n, validatorObj[measureOfTime].min) THEN "OutOfRange"
    ELSE IF NumGreater(n, validatorObj[measureOfTime].max - 1) THEN "OutOfRange"
    ELSE "ok"

\* the range test of one value without a comma
RangeCheck(measureOfTime, value) ==
    LET n == parseInt(value) IN
    IF NumLess(n, validatorObj[measureOfTime].min) THEN "OutOfRange"
    ELSE IF NumGreater(n, validatorObj[measureOfTime].max) THEN "OutOfRange"
    ELSE "ok"

\* validateValue(measureOfTime, value): "ok", or the kind of the error thrown
RECURSIVE validateValue(_, _)
RECURSIVE EachPart(_, _, _)
validateValue(measureOfTime, value) ==
    IF measureOfTime \notin DOMAIN validatorObj THEN "InvalidField"
    ELSE IF validChars(value) THEN "InvalidCharacter"
    ELSE IF value = <<"*">> THEN "ok"
    ELSE IF StrIndexOf(value, ",") >= 0
    THEN EachPart(measureOfTime, Split(value, ","), 1)
    ELSE RangeCheck(measureOfTime, value)

\* splittedValues.forEach(e => validateValue(measureOfTime, e)): the first throw ends it
EachPart(measureOfTime, splittedValues, i) ==
    IF i > Len(splittedValues) THEN "ok"
    ELSE LET v == validateValue(measureOfTime, splittedValues[i]) IN
         IF v # "ok" THEN v ELSE EachPart(measureOfTime, splittedValues, i + 1)


\* an object literal is a sequence of properties [key, value], in insertion order
Keys(obj) == {obj[i].key : i \in 1..Len(obj)}

\* the for-in loop of validateExpression: the first throw ends it
RECURSIVE EachKey(_, _)
EachKey(obj, i) ==
    IF i > Len(obj) THEN "ok"
    ELSE LET v == validateValue(obj[i].key, obj[i].value) IN
         IF v # "ok" THEN v ELSE EachKey(obj, i + 1)

\* validateExpression as it would be with >= for > in the test of the length
validateExpression_FiveRejected(obj) ==
    IF Cardinality(Keys(obj)) >= 5 THEN "TooManyFields"
    ELSE EachKey(obj, 1)

\* validateExpression(expression): the values are strings
validateExpression(obj) ==
    IF Cardinality(Keys(obj)) > 5 THEN "TooManyFields"
    ELSE EachKey(obj, 1)

\* CronValidator has no static property splitExpression: reading it gives
\* undefined, and an index of undefined throws a TypeError
CronValidator_splitExpression == "undefined"

\* the for loop of validateString: the argument CronValidator.splitExpression[i]
\* is evaluated before validateValue is entered
RECURSIVE EachPosition(_, _)
EachPosition(splitExpression, i) ==
    IF i > Len(splitExpression) THEN "ok"
    ELSE IF CronValidator_splitExpression = "undefined" THEN "TypeError"
    ELSE LET v == validateValue(MeasureOfTimeMap[i], CronValidator_splitExpression[i]) IN
         IF v # "ok" THEN v ELSE EachPosition(splitExpression, i + 1)

\* validateString(expression)
validateString(text) ==
    LET splitExpression == Split(text, " ") IN
    IF Len(splitExpression) > 5 THEN "TooManyFields"
    ELSE EachPosition(splitExpression, 1)

-----------------------------------------------------------------------------
(* Arrays                                                                  *)

\* an array element: a string, or a reference to another array
Str(s) == [tag |-> "str", s |-> s, ref |-> 0]
Ref(a) == [tag |-> "ref", s |-> <<>>, ref |-> a]

\* const DEFAULT_INTERVAL = ['*']: the one array object every default field shares
DEFAULT_INTERVAL == 0

DefaultContents == <<Str(<<"*">>)>>

\* the identifier of the next array object created
Fresh(h) == Cardinality(DOMAIN h)

Alloc(h, elems) ==
    [i \in DOMAIN h \cup {Fresh(h)} |-> IF i = Fresh(h) THEN elems ELSE h[i]]

\* String(e) of an element, and Array.prototype.join(',')
RECURSIVE ElemString(_, _)
RECURSIVE ArrayJoin(_, _)
ElemString(h, e) == IF e.tag = "str" THEN e.s ELSE ArrayJoin(h, e.ref)

ArrayJoin(h, id) == Join([i \in 1..Len(h[id]) |-> ElemString(h, h[id][i])], ",")

\* Array.prototype.indexOf(e) >= 0 for a string e: strict equality, so an
\* element that is an array is never equal to it
ArrayHas(arr, s) == \E i \in 1..Len(arr) : arr[i] = Str(s)

\* length === 1 && [0] === '*'
IsDefault(arr) == Len(arr) = 1 /\ arr[1] = Str(<<"*">>)

\* validateValue on an element of a caller's array. An element that is itself
\* an array is converted to a string by the character test and by parseInt,
\* is not === '*', and its indexOf(',') is Array.prototype.indexOf.
validateElem(h, measureOfTime, e) ==
    IF e.tag = "str" THEN validateValue(measureOfTime, e.s)
    ELSE IF measureOfTime \notin DOMAIN validatorObj THEN "InvalidField"
    ELSE IF validChars(ElemString(h, e)) THEN "InvalidCharacter"
    ELSE IF ArrayHas(h[e.ref], <<",">>) THEN "TypeError"  \* an array has no split
    ELSE RangeCheck(measureOfTime, ElemString(h, e))

-----------------------------------------------------------------------------
(* CronBuilder                                                             *)

\* a property name that is not a measure of time
UnknownName == "foo"

\* the order in which the properties of an expression are listed
NameOrder == MeasureOfTimeMap \o <<UnknownName>>

\* the expression of a builder constructed without an initial expression
DefaultExpression == [m \in MeasureOfTimeValues |-> DEFAULT_INTERVAL]

\* what a call leaves behind: the heap, the expressions, and how it ended
Result(h, E, outcome, ret, str) ==
    [h |-> h, E |-> E, outcome |-> outcome, ret |-> ret, str |-> str]

Threw(h, E, kind) == Result(h, E, kind, "none", <<>>)

\* this.expression[measureOfTime] = id
Assign(E, b, measureOfTime, id) ==
    [E EXCEPT ![b] = [m \in DOMAIN E[b] \cup {measureOfTime} |->
                        IF m = measureOfTime THEN id ELSE E[b][m]]]

\* new CronBuilder(initialExpression); given is FALSE for no argument
Part(splitExpression, i) ==
    IF i <= Len(splitExpression) THEN splitExpression[i] ELSE <<>>

RECURSIVE ConstructFields(_, _, _, _, _)
ConstructFields(h, E, b, splitExpression, i) ==
    IF i > 5 THEN Result(h, E, "ok", "none", <<>>)
    ELSE IF Len(Part(splitExpression, i)) > 0
    THEN LET parts == Split(Part(splitExpression, i), ",")
             elems == [k \in 1..Len(parts) |-> Str(parts[k])]
         IN  ConstructFields(Alloc(h, elems),
                             Assign(E, b, MeasureOfTimeMap[i], Fresh(h)),
                             b, splitExpression, i + 1)
    ELSE ConstructFields(h, Assign(E, b, MeasureOfTimeMap[i], DEFAULT_INTERVAL),
                         b, splitExpression, i + 1)

constructor(h, E, b, given, initialExpression) ==
    IF given /\ Len(initialExpression) > 0
    THEN LET v == validateString(initialExpression) IN
         IF v # "ok" THEN Threw(h, E, v)
         ELSE ConstructFields(h, [E EXCEPT ![b] = <<>>], b,
                              Split(initialExpression, " "), 1)
    ELSE Result(h, [E EXCEPT ![b] = DefaultExpression], "ok", "none", <<>>)

\* build()
build(h, E, b) ==
    Join([i \in 1..Len(MeasureOfTimeMap) |-> ArrayJoin(h, E[b][MeasureOfTimeMap[i]])],
         " ")

\* PushParts as it would be without the indexOf test
RECURSIVE PushParts_NoIndexOf(_, _, _, _)
PushParts_NoIndexOf(arr, splittedValues, i, value) ==
    IF i > Len(splittedValues) THEN arr
    ELSE PushParts_NoIndexOf(Append(arr, Str(value)), splittedValues, i + 1, value)

\* the forEach of addValue: value is pushed once for every part not in the array
RECURSIVE PushParts(_, _, _, _)
PushParts(arr, splittedValues, i, value) ==
    IF i > Len(splittedValues) THEN arr
    ELSE PushParts(IF ArrayHas(arr, splittedValues[i]) THEN arr
                   ELSE Append(arr, Str(value)),
                   splittedValues, i + 1, value)

\* addValue as it would be if it wrote the value into the array of a default
\* field instead of replacing the array
addValue_InPlace(h, E, b, measureOfTime, value) ==
    LET v == validateValue(measureOfTime, value) IN
    IF v # "ok" THEN Threw(h, E, v)
    ELSE IF IsDefault(h[E[b][measureOfTime]])
    THEN Result([h EXCEPT ![E[b][measureOfTime]] = <<Str(value)>>], E, "ok", "none", <<>>)
    ELSE Result([h EXCEPT ![E[b][measureOfTime]] = PushParts(@, Split(value, ","), 1, value)],
                E, "ok", "none", <<>>)

\* addValue(measureOfTime, value)
addValue(h, E, b, measureOfTime, value) ==
    LET v == validateValue(measureOfTime, value) IN
    IF v # "ok" THEN Threw(h, E, v)
    ELSE IF IsDefault(h[E[b][measureOfTime]])
    THEN Result(Alloc(h, <<Str(value)>>), Assign(E, b, measureOfTime, Fresh(h)),
                "ok", "none", <<>>)
    ELSE Result([h EXCEPT ![E[b][measureOfTime]] = PushParts(@, Split(value, ","), 1, value)],
                E, "ok", "none", <<>>)

\* Array.prototype.filter(timeValue => value !== timeValue)
Filter(arr, value) == SelectSeq(arr, LAMBDA timeValue : timeValue # Str(value))

\* removeValue as it would be without the reset of an emptied field
removeValue_NoReset(h, E, b, measureOfTime, value) ==
    IF measureOfTime \notin DOMAIN E[b] THEN Threw(h, E, "InvalidField")
    ELSE IF IsDefault(h[E[b][measureOfTime]])
    THEN Result(h, E, "ok", "sentinel", <<>>)
    ELSE Result(Alloc(h, Filter(h[E[b][measureOfTime]], value)),
                Assign(E, b, measureOfTime, Fresh(h)), "ok", "none", <<>>)

\* removeValue(measureOfTime, value)
removeValue(h, E, b, measureOfTime, value) ==
    IF measureOfTime \notin DOMAIN E[b] THEN Threw(h, E, "InvalidField")
    ELSE IF IsDefault(h[E[b][measureOfTime]])
    THEN Result(h, E, "ok", "sentinel", <<>>)
    ELSE LET filtered == Filter(h[E[b][measureOfTime]], value) IN
         IF Len(filtered) = 0
         THEN Result(h, Assign(E, b, measureOfTime, DEFAULT_INTERVAL), "ok", "none", <<>>)
         ELSE Result(Alloc(h, filtered), Assign(E, b, measureOfTime, Fresh(h)),
                     "ok", "none", <<>>)

\* get(measureOfTime)
get(h, E, b, measureOfTime) ==
    IF measureOfTime \notin DOMAIN E[b] THEN Threw(h, E, "InvalidField")
    ELSE Result(h, E, "ok", "string", ArrayJoin(h, E[b][measureOfTime]))

\* getAll(): the expression itself, its arrays included
getAll(E, b) == E[b]

\* the for loop of set: the first throw ends it
RECURSIVE EachElem(_, _, _, _)
EachElem(h, measureOfTime, arr, i) ==
    IF i > Len(arr) THEN "ok"
    ELSE LET v == validateElem(h, measureOfTime, arr[i]) IN
         IF v # "ok" THEN v ELSE EachElem(h, measureOfTime, arr, i + 1)

\* set(measureOfTime, value); value is [isArray, id]: the caller's array object,
\* or something that is not an array
set(h, E, b, measureOfTime, value) ==
    IF ~value.isArray THEN Threw(h, E, "InvalidValueType")
    ELSE IF Len(h[value.id]) = 0
    THEN LET E1 == Assign(E, b, measureOfTime, Fresh(h))
             h1 == Alloc(h, <<Ref(DEFAULT_INTERVAL)>>)
         IN  Result(h1, E1, "ok", "string", ArrayJoin(h1, E1[b][measureOfTime]))
    ELSE LET v == EachElem(h, measureOfTime, h[value.id], 1) IN
         IF v # "ok" THEN Threw(h, E, v)
         ELSE LET E1 == Assign(E, b, measureOfTime, value.id)
              IN  Result(h, E1, "ok", "string", ArrayJoin(h, E1[b][measureOfTime]))

\* the second forEach of setAll: set is called for each key in turn, and the
\* first call that throws ends the loop with the earlier calls applied
RECURSIVE SetEach(_, _, _, _)
SetEach(h, E, b, expToSet) ==
    IF Len(expToSet) = 0 THEN Result(h, E, "ok", "none", <<>>)
    ELSE LET r == set(h, E, b, Head(expToSet).key, Head(expToSet).value) IN
         IF r.outcome # "ok" THEN Threw(r.h, r.E, r.outcome)
         ELSE SetEach(r.h, r.E, b, Tail(expToSet))

\* setAll as it would be without the call of validateExpression
setAll_Unvalidated(h, E, b, expToSet) ==
    IF \E i \in 1..Len(expToSet) : ~expToSet[i].value.isArray
    THEN Threw(h, E, "TypeError")
    ELSE SetEach(h, E, b, expToSet)

\* setAll as it would be if it reset the fields the object omits
setAll_ResetOmitted(h, E, b, expToSet) ==
    LET r == SetEach(h, E, b, expToSet) IN
    Result(r.h,
           [r.E EXCEPT ![b] = [m \in DOMAIN r.E[b] |->
               IF \E i \in 1..Len(expToSet) : expToSet[i].key = m
               THEN r.E[b][m] ELSE DEFAULT_INTERVAL]],
           r.outcome, r.ret, r.str)

\* setAll(expToSet); expToSet is a sequence of [key, value], value as for set.
\* A value that is not an array has no join: the first forEach throws a TypeError.
setAll(h, E, b, expToSet) ==
    IF \E i \in 1..Len(expToSet) : ~expToSet[i].value.isArray
    THEN Threw(h, E, "TypeError")
    ELSE LET testExp == [i \in 1..Len(expToSet) |->
                            [key |-> expToSet[i].key,
                             value |-> ArrayJoin(h, expToSet[i].value.id)]]
             v == validateExpression(testExp)
         IN  IF v # "ok" THEN Threw(h, E, v) ELSE SetEach(h, E, b, expToSet)

-----------------------------------------------------------------------------
(* The heap in canonical form                                              *)

\* Array identifiers are not observable, only whether two references are the
\* same array. After every call the arrays no expression refers to are
\* dropped (garbage) and the others are renumbered in the order in which the
\* expressions list them.
AllBuilders == <<"b1", "b2">>

AllSlots ==
    [k \in 1..(Len(AllBuilders) * Len(NameOrder)) |->
        [b |-> AllBuilders[((k - 1) \div Len(NameOrder)) + 1],
         n |-> NameOrder[((k - 1) % Len(NameOrder)) + 1]]]

\* the arrays other than DEFAULT_INTERVAL, in the order of their first reference
RECURSIVE FirstSeen(_, _, _)
FirstSeen(E, k, acc) ==
    IF k > Len(AllSlots) THEN acc
    ELSE IF AllSlots[k].n \notin DOMAIN E[AllSlots[k].b]
    THEN FirstSeen(E, k + 1, acc)
    ELSE LET x == E[AllSlots[k].b][AllSlots[k].n] IN
         IF x = DEFAULT_INTERVAL \/ \E j \in 1..Len(acc) : acc[j] = x
         THEN FirstSeen(E, k + 1, acc)
         ELSE FirstSeen(E, k + 1, Append(acc, x))

Renumber(h, E) ==
    LET order == FirstSeen(E, 1, <<>>)
        rank  == [x \in {order[k] : k \in 1..Len(order)} \cup {DEFAULT_INTERVAL} |->
                    IF x = DEFAULT_INTERVAL THEN DEFAULT_INTERVAL
                    ELSE CHOOSE k \in 1..Len(order) : order[k] = x]
    IN  [h |-> [i \in 0..Len(order) |->
                    IF i = DEFAULT_INTERVAL THEN h[DEFAULT_INTERVAL] ELSE h[order[i]]],
         E |-> [b \in DOMAIN E |-> [m \in DOMAIN E[b] |-> rank[E[b][m]]]]]

\* When the call left every reference as it was, the numbering stands and only
\* the arrays created since are dropped.
Canon(h, E) ==
    IF E = expression THEN [h |-> [i \in DOMAIN heap |-> h[i]], E |-> E]
    ELSE Renumber(h, E)

-----------------------------------------------------------------------------
(* The calls a program makes                                               *)

\* what a caller passes where an array is expected
Array(elems) == [isArray |-> TRUE, elems |-> elems]
NotArray == [isArray |-> FALSE, elems |-> <<>>]

Prop(key, value) == [key |-> key, value |-> value]

\* the record of a call: the method, the builder, the measure of time it names
Call(op, b, field) == [op |-> op, b |-> b, field |-> field]

\* ... and how it ended: "ok" or the kind of the error thrown, and what it returned
Returned(call, r) ==
    [op |-> call.op, b |-> call.b, field |-> call.field,
     outcome |-> r.outcome, ret |-> r.ret]

Commit(call, r, text) ==
    LET c == Canon(r.h, r.E) IN
    /\ heap' = c.h
    /\ expression' = c.E
    /\ last' = Returned(call, r)
    /\ arg' = text

Constructed(b) == DOMAIN expression[b] # {}

\* the caller creates its array, then passes it
Pass(h, arr) == IF arr.isArray THEN Alloc(h, arr.elems) ELSE h
Passed(h, arr) == [isArray |-> arr.isArray, id |-> IF arr.isArray THEN Fresh(h) ELSE 0]

RECURSIVE PassAll(_, _)
PassAll(h, obj) ==
    IF Len(obj) = 0 THEN [h |-> h, exp |-> <<>>]
    ELSE LET rest == PassAll(Pass(h, Head(obj).value), Tail(obj))
         IN  [h |-> rest.h,
              exp |-> <<Prop(Head(obj).key, Passed(h, Head(obj).value))>> \o rest.exp]

\* the longest token list the model lets addValue build
MaxLen == 3

New(b, given, initialExpression) ==
    /\ b \in DOMAIN expression
    /\ Commit(Call("new", b, IF given THEN "text" ELSE "none"),
              constructor(heap, expression, b, given, initialExpression),
              initialExpression)

AddValue(b, measureOfTime, value) ==
    /\ Constructed(b)
    /\ LET r == addValue(heap, expression, b, measureOfTime, value) IN
        /\ r.outcome = "ok" => Len(r.h[r.E[b][measureOfTime]]) <= MaxLen
        /\ Commit(Call("addValue", b, measureOfTime), r, <<>>)

RemoveValue(b, measureOfTime, value) ==
    /\ Constructed(b)
    /\ Commit(Call("removeValue", b, measureOfTime),
              removeValue(heap, expression, b, measureOfTime, value), <<>>)

Set(b, measureOfTime, arr) ==
    /\ Constructed(b)
    /\ Commit(Call("set", b, measureOfTime),
              set(Pass(heap, arr), expression, b, measureOfTime, Passed(heap, arr)),
              <<>>)

SetAll(b, obj) ==
    /\ Constructed(b)
    /\ LET p == PassAll(heap, obj) IN
        Commit(Call("setAll", b, "none"), setAll(p.h, expression, b, p.exp), <<>>)

\* set(measureOfTime, a) on b, for an array a the caller passed before or got
\* from getAll(): the array that field g of builder c holds
SetSame(b, measureOfTime, c, g) ==
    /\ Constructed(b)
    /\ Constructed(c)
    /\ g \in DOMAIN getAll(expression, c)
    /\ Commit(Call("set", b, measureOfTime),
              set(heap, expression, b, measureOfTime,
                  [isArray |-> TRUE, id |-> getAll(expression, c)[g]]),
              <<>>)

-----------------------------------------------------------------------------
(* The builder under the calls of a program                                *)

sStar == <<"*">>
s5    == <<"5">>
s10   == <<"1", "0">>
s5c10 == <<"5", ",", "1", "0">>
s60   == <<"6", "0">>
sBad  == <<"1", "-", "5">>

\* a text of space separated parts
Text(parts) == Join(parts, " ")

Builders == {"b1"}

\* the calls made: <<measureOfTime, value>>
AddValues == {sStar, s5, s10, s5c10, s60, sBad}
AddCalls == ({"hour"} \X AddValues) \cup {<<UnknownName, s5>>}

RemoveValues == {sStar, s5, s10}
RemoveCalls == ({"hour"} \X RemoveValues) \cup {<<UnknownName, s5>>}

SetArrays ==
    {NotArray,
     Array(<<>>),
     Array(<<Str(s5)>>),
     Array(<<Str(s10), Str(s5)>>),
     Array(<<Str(sStar), Str(s5)>>),
     Array(<<Str(s60)>>),
     Array(<<Str(s5), Str(s60)>>),
     Array(<<Str(s5), Str(sBad)>>)}
SetCalls ==
    ({"hour"} \X SetArrays)
    \cup ({"minute"} \X {Array(<<>>), Array(<<Str(s10)>>), Array(<<Str(s60)>>)})
    \cup ({UnknownName} \X {Array(<<>>), Array(<<Str(s5)>>)})

SixKeys ==
    [i \in 1..Len(NameOrder) |-> Prop(NameOrder[i], Array(<<Str(s5)>>))]

SetAllObjects ==
    {<<Prop("hour", Array(<<Str(s5)>>))>>,
     <<Prop("minute", Array(<<Str(s10)>>)), Prop("hour", Array(<<Str(s5), Str(s10)>>))>>,
     <<Prop("minute", Array(<<Str(s5)>>)), Prop("hour", Array(<<Str(s60)>>))>>,
     <<Prop("minute", Array(<<Str(s5)>>)), Prop(UnknownName, Array(<<Str(s5)>>))>>,
     <<Prop("hour", Array(<<>>))>>,
     <<Prop("minute", Array(<<Str(s5)>>)), Prop("hour", NotArray)>>,
     SixKeys}

NewTexts ==
    {Text(<<s5, s5, s5, s5, s5>>),
     Text(<<s5, s5, s5, s5, s5, s5>>)}

Init ==
    /\ heap = [i \in {DEFAULT_INTERVAL} |-> DefaultContents]
    /\ expression = [b \in {AllBuilders[i] : i \in 1..Len(AllBuilders)} |->
                        IF b = "b1" THEN DefaultExpression ELSE <<>>]
    /\ last = Returned(Call("new", "b1", "none"),
                       Result(heap, expression, "ok", "none", <<>>))
    /\ arg = <<>>

Next ==
    \E b \in Builders :
        \/ New(b, FALSE, <<>>)
        \/ \E text \in NewTexts : New(b, TRUE, text)
        \/ \E c \in AddCalls : AddValue(b, c[1], c[2])
        \/ \E c \in RemoveCalls : RemoveValue(b, c[1], c[2])
        \/ \E c \in SetCalls : Set(b, c[1], c[2])
        \/ \E obj \in SetAllObjects : SetAll(b, obj)

Spec == Init /\ [][Next]_vars

-----------------------------------------------------------------------------
(* The validators and the constructor on their own, over many texts        *)

\* the decimal numeral of an integer
RECURSIVE ToStr(_)
ToStr(n) ==
    IF n < 0 THEN <<"-">> \o ToStr(0 - n)
    ELSE IF n < 10 THEN <<Digits[n + 1]>>
    ELSE ToStr(n \div 10) \o <<Digits[(n % 10) + 1]>>

Min(m) == validatorObj[m].min
Max(m) == validatorObj[m].max

\* every integer from below the least minimum to above the greatest maximum
IntRange ==
    LET lo == CHOOSE x \in {Min(m) : m \in MeasureOfTimeValues} :
                  \A m \in MeasureOfTimeValues : x <= Min(m)
        hi == CHOOSE x \in {Max(m) : m \in MeasureOfTimeValues} :
                  \A m \in MeasureOfTimeValues : x >= Max(m)
    IN  (lo - 1)..(hi + 1)

IntTokens == {ToStr(n) : n \in IntRange}

\* the integer an integer token is the numeral of
IntOf(t) == CHOOSE n \in IntRange : ToStr(n) = t

OtherTokens ==
    {sStar, s5c10, sBad, <<>>, <<" ">>, <<"a">>, <<"5", "/", "2">>, <<"5", "a">>,
     <<"*", "/", "5">>, <<"5", ",", "6", "0">>, <<"6", "0", ",", "a">>, <<"*", ",", "5">>}

ValueInputs == IntTokens \cup OtherTokens

\* for the field at position i: '*', its minimum, '1', and 'minimum,maximum'
PartChoices(i) ==
    LET m == MeasureOfTimeMap[i] IN
    {sStar, ToStr(Min(m)), <<"1">>, ToStr(Min(m)) \o <<",">> \o ToStr(Max(m))}

\* the texts of five parts, each '*' or a list of integers in range for its field
RoundTripTexts ==
    {Text(<<p1, p2, p3, p4, p5>>) :
        p1 \in PartChoices(1), p2 \in PartChoices(2), p3 \in PartChoices(3),
        p4 \in PartChoices(4), p5 \in PartChoices(5)}

TextInputs ==
    RoundTripTexts
    \cup {Text(<<<<"0">>, <<"2", "3">>, sStar, sStar, sStar>>),
          Text(<<<<"0">>, <<"2", "4">>, sStar, sStar, sStar>>),
          Text(<<s5, s5, s5, s5, s5, s5>>),
          Text(<<s5, s5>>),
          Text(<<sBad>>)}

ObjectInputs ==
    {<<Prop("hour", s5)>>,
     <<Prop("minute", s5c10), Prop("hour", sStar)>>,
     <<Prop("minute", s5), Prop("hour", s60)>>,
     <<Prop("hour", sBad)>>,
     <<Prop(UnknownName, s5)>>,
     <<>>,
     [i \in 1..5 |-> Prop(MeasureOfTimeMap[i], <<"1">>)],
     [i \in 1..Len(NameOrder) |-> Prop(NameOrder[i], <<"1">>)],
     [i \in 1..Len(NameOrder) |-> Prop(NameOrder[i], sBad)]}

\* The validators keep no state: each behaviour starts from a builder just
\* constructed and makes one call, of a validator or of new with a text.
InitValidator ==
    /\ heap = [i \in {DEFAULT_INTERVAL} |-> DefaultContents]
    /\ expression = [b \in {AllBuilders[i] : i \in 1..Len(AllBuilders)} |->
                        IF b = "b1" THEN DefaultExpression ELSE <<>>]
    /\ last = [op |-> "start", b |-> "none", field |-> "none",
               outcome |-> "ok", ret |-> "none"]
    /\ arg = <<>>

\* how a call of a validator ended
Validated(op, field, outcome) ==
    [op |-> op, b |-> "none", field |-> field, outcome |-> outcome, ret |-> "none"]

ValidateValue(measureOfTime, value) ==
    /\ last.op = "start"
    /\ last' = Validated("validateValue", measureOfTime,
                         validateValue(measureOfTime, value))
    /\ arg' = value
    /\ UNCHANGED <<heap, expression>>

ValidateString(text) ==
    /\ last.op = "start"
    /\ last' = Validated("validateString", "none", validateString(text))
    /\ arg' = text
    /\ UNCHANGED <<heap, expression>>

ValidateExpression(obj) ==
    /\ last.op = "start"
    /\ last' = Validated("validateExpression", "none", validateExpression(obj))
    /\ arg' = obj
    /\ UNCHANGED <<heap, expression>>

NewFromText(text) ==
    /\ last.op = "start"
    /\ New("b1", TRUE, text)

NextValidator ==
    \/ \E i \in 1..Len(NameOrder), value \in ValueInputs : ValidateValue(NameOrder[i], value)
    \/ \E text \in TextInputs : ValidateString(text)
    \/ \E obj \in ObjectInputs : ValidateExpression(obj)
    \/ \E text \in TextInputs : NewFromText(text)

SpecValidator == InitValidator /\ [][NextValidator]_vars

-----------------------------------------------------------------------------
(* Two builders, and arrays passed more than once                          *)

Builders2 == {"b1", "b2"}

SharedAddValues == {s5, s10}
SharedSetArrays == {Array(<<>>), Array(<<Str(s5)>>)}

SharedObjects ==
    {<<Prop("hour", Array(<<>>))>>,
     <<Prop("minute", Array(<<Str(s10)>>)), Prop("hour", Array(<<Str(s10), Str(s5)>>))>>}

\* the fields an array is passed to again: <<builder, field, builder, field>>
SameCalls ==
    {<<"b1", "minute", "b1", "hour">>,
     <<"b2", "hour", "b1", "hour">>,
     <<"b1", "hour", "b2", "hour">>}

NextShared ==
    \/ \E b \in Builders2 : New(b, FALSE, <<>>)
    \/ \E b \in Builders2, v \in SharedAddValues : AddValue(b, "hour", v)
    \/ \E b \in Builders2 : RemoveValue(b, "hour", s5)
    \/ \E b \in Builders2, arr \in SharedSetArrays : Set(b, "hour", arr)
    \/ \E b \in Builders2, obj \in SharedObjects : SetAll(b, obj)
    \/ \E c \in SameCalls : SetSame(c[1], c[2], c[3], c[4])

SpecShared == Init /\ [][NextShared]_vars

-----------------------------------------------------------------------------
(* A default builder under addValue and removeValue only                   *)

sEmpty == <<>>
s5sp5  == <<"5", " ", "5">>

TokenAddValues == {sStar, s5, s10, s5c10, s60, sEmpty, s5sp5}
TokenRemoveValues == {s5, s5c10, sEmpty}

NextTokens ==
    \/ \E v \in TokenAddValues : AddValue("b1", "hour", v)
    \/ \E v \in TokenRemoveValues : RemoveValue("b1", "hour", v)

SpecTokens == Init /\ [][NextTokens]_vars

-----------------------------------------------------------------------------
(* Properties                                                              *)

\* the token list of a field of builder b1, now and after a call that ended as r
Field(m) == heap[expression["b1"][m]]
After(r, m) == r.h[r.E["b1"][m]]

\* the calls tried in every reachable state
CallAdd(m, v) == addValue(heap, expression, "b1", m, v)
CallRemove(m, v) == removeValue(heap, expression, "b1", m, v)
CallSet(m, arr) == set(Pass(heap, arr), expression, "b1", m, Passed(heap, arr))
CallGet(m) == get(heap, expression, "b1", m)

\* C1: no field's token list holds the wildcard '*' together with another token.
C1_WildcardExclusive ==
    \A m \in MeasureOfTimeValues :
        (\E i \in 1..Len(Field(m)) : ElemString(heap, Field(m)[i]) = sStar)
            => Len(Field(m)) = 1

\* C2: every field holds a non-empty token list, and a call that would leave a
\* field with no token (set with an empty array, removeValue of the last tokens)
\* leaves it holding exactly ['*'].
C2_NonEmpty ==
    [][\A m \in MeasureOfTimeValues :
          /\ Len(Field(m)') > 0
          /\ Set("b1", m, Array(<<>>)) => Field(m)' = DefaultContents
          /\ \A v \in RemoveValues :
                 (RemoveValue("b1", m, v) /\ Len(Filter(Field(m), v)) = 0)
                     => Field(m)' = DefaultContents]_vars

\* C3: the expression has exactly the five measures of time as its fields, and
\* get of a name outside them fails with InvalidField.
C3_ClosedFieldSet ==
    /\ DOMAIN expression["b1"] = MeasureOfTimeValues
    /\ CallGet(UnknownName).outcome = "InvalidField"

Mutators == {"addValue", "removeValue", "set", "setAll"}

\* C4: a call of addValue, removeValue, set or setAll that fails leaves every
\* field as it was, and set(minute, ['60']) fails with OutOfRange.
C4_NoPartialApplication ==
    [][/\ (last'.op \in Mutators /\ last'.outcome # "ok")
              => (heap' = heap /\ expression' = expression)
       /\ CallSet("minute", Array(<<Str(s60)>>)).outcome = "OutOfRange"]_vars

\* C4 happens: setAll with a valid minute and an hour out of range has failed on
\* a builder whose hour and minute hold explicit values
C4_Witness ==
    /\ last.op = "setAll" /\ last.outcome = "OutOfRange"
    /\ Field("hour") = <<Str(s5), Str(s10)>>
    /\ Field("minute") = <<Str(s10)>>

\* the last call was validateValue of a measure of time and an integer token
IntegerCase ==
    /\ last.op = "validateValue"
    /\ last.field \in MeasureOfTimeValues
    /\ arg \in IntTokens

\* C5 as stated: validateValue succeeds on every integer token within the
\* field's [min, max] and fails with OutOfRange on min-1 and on max+1.
C5_RangeCheckAsStated ==
    IntegerCase =>
        LET n == IntOf(arg)
            m == last.field
        IN  /\ (Min(m) <= n /\ n <= Max(m)) => last.outcome = "ok"
            /\ (n = Min(m) - 1 \/ n = Max(m) + 1) => last.outcome = "OutOfRange"

\* C5 amended: validateValue succeeds on every integer token within the field's
\* [min, max], fails with OutOfRange on max+1 and on min-1 when that is not
\* negative, and fails with InvalidCharacter on min-1 = -1, whose sign is
\* rejected by the character test before any range test.
C5_RangeCheck ==
    IntegerCase =>
        LET n == IntOf(arg)
            m == last.field
        IN  /\ (Min(m) <= n /\ n <= Max(m)) => last.outcome = "ok"
            /\ n = Max(m) + 1 => last.outcome = "OutOfRange"
            /\ (n = Min(m) - 1 /\ n >= 0) => last.outcome = "OutOfRange"
            /\ (n = Min(m) - 1 /\ n < 0) => last.outcome = "InvalidCharacter"

\* C5 happens: validateValue('minute', '-1') has been called
C5_Witness ==
    /\ IntegerCase
    /\ last.field = "minute"
    /\ arg = <<"-", "1">>
    /\ last.outcome = "InvalidCharacter"

\* C6: new CronBuilder(s), for s of five parts each '*' or a list of integers
\* in range for its field, succeeds and build() returns s.
C6_RoundTrip ==
    (last.op = "new" /\ last.field = "text" /\ arg \in RoundTripTexts)
        => (last.outcome = "ok" /\ build(heap, expression, "b1") = arg)

\* every part of the text passes validateValue for the field at its position
PartsPass(parts) ==
    \A i \in 1..Len(parts) : validateValue(MeasureOfTimeMap[i], parts[i]) = "ok"

\* C7: validateString fails with TooManyFields on more than 5 parts, otherwise
\* succeeds exactly when every part passes validateValue for the field at its
\* position; '0 23 * * *' is accepted, '0 24 * * *' rejected with OutOfRange.
C7_IndexAligned ==
    last.op = "validateString" =>
        LET parts == Split(arg, " ") IN
        /\ Len(parts) > 5 => last.outcome = "TooManyFields"
        /\ Len(parts) <= 5 => (last.outcome = "ok" <=> PartsPass(parts))
        /\ arg = Text(<<<<"0">>, <<"2", "4">>, sStar, sStar, sStar>>)
               => last.outcome = "OutOfRange"

\* single tokens: no comma
SingleTokens == {sStar, s5, s10, <<"1">>, s60}

\* C8: addValue(f, t) of a valid single token t makes get(f) = t on a field
\* holding exactly ['*']; on any other field it appends t when t is not
\* present and changes nothing when it is.
C8_SingleTokenAdd ==
    \A m \in MeasureOfTimeValues, t \in SingleTokens :
        validateValue(m, t) = "ok" =>
            LET r == CallAdd(m, t) IN
            /\ r.outcome = "ok"
            /\ IsDefault(Field(m)) => get(r.h, r.E, "b1", m).str = t
            /\ (~IsDefault(Field(m)) /\ ~ArrayHas(Field(m), t))
                   => After(r, m) = Append(Field(m), Str(t))
            /\ (~IsDefault(Field(m)) /\ ArrayHas(Field(m), t))
                   => After(r, m) = Field(m)

\* C8 happens: addValue(hour, '5') then addValue(hour, '10') gave '5,10'
C8_Witness ==
    /\ last.op = "addValue" /\ last.field = "hour" /\ last.outcome = "ok"
    /\ Field("hour") = <<Str(s5), Str(s10)>>
    /\ CallGet("hour").str = s5c10

\* L followed by the parts that are not in it, each once
RECURSIVE AppendMissing(_, _, _)
AppendMissing(arr, parts, i) ==
    IF i > Len(parts) THEN arr
    ELSE AppendMissing(IF ArrayHas(arr, parts[i]) THEN arr ELSE Append(arr, Str(parts[i])),
                       parts, i + 1)

\* C9: on a field holding explicit tokens L, addValue(f, v) of a valid comma
\* separated v leaves L followed by the parts of v that were not in L, each as
\* its own token, in the order of their first appearance.
C9_MultiValueAdd ==
    \A m \in MeasureOfTimeValues :
        (~IsDefault(Field(m)) /\ validateValue(m, s5c10) = "ok")
            => After(CallAdd(m, s5c10), m) = AppendMissing(Field(m), Split(s5c10, ","), 1)

\* C10: where get(f) = '*', removeValue(f, v) returns the sentinel message and
\* leaves all five fields unchanged, with get(f) = '*'.
C10_RemoveNoOp ==
    \A m \in MeasureOfTimeValues, v \in RemoveValues :
        CallGet(m).str = sStar =>
            LET r == CallRemove(m, v) IN
            /\ r.outcome = "ok" /\ r.ret = "sentinel"
            /\ \A k \in MeasureOfTimeValues : After(r, k) = Field(k)
            /\ get(r.h, r.E, "b1", m).str = sStar

\* the tokens of L other than v, in their order
RECURSIVE Without(_, _, _)
Without(L, v, i) ==
    IF i > Len(L) THEN <<>>
    ELSE IF L[i] = Str(v) THEN Without(L, v, i + 1)
    ELSE <<L[i]>> \o Without(L, v, i + 1)

\* C11: on a field not at default, removeValue(f, v) leaves the previous tokens
\* other than v in their previous order; when none remains the field becomes
\* ['*'] and get(f) is '*'; when v is not present the field is unchanged.
C11_RemoveResult ==
    \A m \in MeasureOfTimeValues, v \in RemoveValues \cup {s5c10} :
        ~IsDefault(Field(m)) =>
            LET r    == CallRemove(m, v)
                rest == Without(Field(m), v, 1)
            IN  /\ r.outcome = "ok"
                /\ Len(rest) > 0 => After(r, m) = rest
                /\ Len(rest) = 0 =>
                       (After(r, m) = DefaultContents /\ get(r.h, r.E, "b1", m).str = sStar)
                /\ ~ArrayHas(Field(m), v) => After(r, m) = Field(m)

\* C11 happens: removeValue has filtered the hour and, no token remaining,
\* reset it to the default
C11_Witness ==
    /\ last.op = "removeValue" /\ last.field = "hour"
    /\ last.outcome = "ok" /\ last.ret = "none"
    /\ expression["b1"]["hour"] = DEFAULT_INTERVAL

\* C12: set(f, []) leaves field f holding exactly ['*']: get(f) is '*', and an
\* addValue(f, '5') that follows gives get(f) = '5'.
C12_EmptySetResets ==
    [][\A m \in MeasureOfTimeValues :
          Set("b1", m, Array(<<>>)) =>
              /\ Field(m)' = DefaultContents
              /\ get(heap', expression', "b1", m).str = sStar
              /\ LET r == addValue(heap', expression', "b1", m, s5)
                 IN  get(r.h, r.E, "b1", m).str = s5]_vars

\* expression objects tried in every reachable state
FrameObjects ==
    SetAllObjects
    \cup {<<>>,
          <<Prop("month", Array(<<Str(s5c10)>>))>>,
          <<Prop("dayOfTheWeek", Array(<<Str(s5)>>)), Prop("minute", Array(<<Str(s10), Str(s5)>>))>>,
          [i \in 1..Len(MeasureOfTimeMap) |-> Prop(MeasureOfTimeMap[i], Array(<<Str(<<"1">>)>>))]}

\* the object supplies measures of time only, each with an array whose
\* elements are all valid for it
ValidObject(obj) ==
    \A i \in 1..Len(obj) :
        /\ obj[i].key \in MeasureOfTimeValues
        /\ obj[i].value.isArray
        /\ \A k \in 1..Len(obj[i].value.elems) :
               /\ obj[i].value.elems[k].tag = "str"
               /\ validateValue(obj[i].key, obj[i].value.elems[k].s) = "ok"

CallSetAll(obj) ==
    LET p == PassAll(heap, obj) IN setAll(p.h, expression, "b1", p.exp)

HasOtherCharacter(text) ==
    \E i \in 1..Len(text) : ~(IsDigit(text[i]) \/ text[i] \in {",", "*", " "})

C15_ObjectLength ==
    last.op = "validateExpression" =>
        /\ Len(arg) > 5 => last.outcome = "TooManyFields"
        /\ (/\ Len(arg) <= 5
            /\ \A i \in 1..Len(arg) :
                   /\ arg[i].key \in MeasureOfTimeValues
                   /\ validateValue(arg[i].key, arg[i].value) = "ok")
               => last.outcome = "ok"

\* C15 happens: an object of six entries, one of an unknown name and all of
\* values with an invalid character, has failed with TooManyFields
C15_Witness ==
    /\ last.op = "validateExpression"
    /\ Len(arg) = 6
    /\ \E i \in 1..Len(arg) : arg[i].key = UnknownName /\ arg[i].value = sBad
    /\ last.outcome = "TooManyFields"

AllDefault == Text(<<sStar, sStar, sStar, sStar, sStar>>)

\* C16: a builder constructed with no initial text builds '* * * * *', whenever
\* it is constructed and whatever calls were made on the other builder: the
\* shared default array holds '*' and nothing else.
C16_DefaultIndependent ==
    /\ heap[DEFAULT_INTERVAL] = DefaultContents
    /\ \A b \in Builders2 :
           LET r == constructor(heap, expression, b, FALSE, <<>>) IN
           r.outcome = "ok" /\ build(r.h, r.E, b) = AllDefault
    /\ (last.op = "new" /\ last.field = "none" /\ last.outcome = "ok")
           => build(heap, expression, last.b) = AllDefault

\* C16 happens: b2 has been constructed after b1's hour was set to '5,10'
\* from a default field
C16_Witness ==
    /\ last.op = "new" /\ last.b = "b2" /\ last.outcome = "ok"
    /\ heap[expression["b1"]["hour"]] = <<Str(s5), Str(s10)>>
    /\ build(heap, expression, "b2") = AllDefault

\* C19: a call of addValue, removeValue or set changes no field but the one it
\* names, of the builder it is called on, also when an array has been passed
\* to set for two fields or two builders.
C19_Isolation ==
    [][last'.op \in {"addValue", "removeValue", "set"} =>
          \A b \in Builders2 : \A m \in DOMAIN expression[b] :
              (b # last'.b \/ m # last'.field) =>
                  /\ m \in DOMAIN expression'[b]
                  /\ heap'[expression'[b][m]] = heap[expression[b][m]]]_vars

\* C17: addValue(f, '5,10') on a field holding exactly ['*'] stores the tokens
\* '5' and '10': a removeValue(f, '5') that follows leaves get(f) = '10', and an
\* addValue(f, '5') that follows leaves the field as it is.
C17_DefaultAddSplits ==
    [][\A m \in MeasureOfTimeValues :
          (IsDefault(Field(m)) /\ AddValue("b1", m, s5c10)) =>
              /\ Field(m)' = <<Str(s5), Str(s10)>>
              /\ LET r == removeValue(heap', expression', "b1", m, s5)
                 IN  get(r.h, r.E, "b1", m).str = s10
              /\ LET r == addValue(heap', expression', "b1", m, s5)
                 IN  r.h[r.E["b1"][m]] = Field(m)']_vars

\* a decimal numeral: one digit or more and nothing else
IsNumeral(t) == Len(t) > 0 /\ \A i \in 1..Len(t) : IsDigit(t[i])

\* C18: after successful calls of addValue and removeValue on a default
\* builder, every field holds exactly ['*'] or pairwise distinct tokens, each a
\* decimal numeral of an integer within the field's [min, max].
C18_StoredTokens ==
    \A m \in MeasureOfTimeValues :
        \/ Field(m) = DefaultContents
        \/ /\ \A i, j \in 1..Len(Field(m)) : Field(m)[i] = Field(m)[j] => i = j
           /\ \A i \in 1..Len(Field(m)) :
                  /\ Field(m)[i].tag = "str"
                  /\ IsNumeral(Field(m)[i].s)
                  /\ Min(m) <= DigitsValue(Field(m)[i].s, 1, 0)
                  /\ DigitsValue(Field(m)[i].s, 1, 0) <= Max(m)

\* C20: build() returns get(minute), get(hour), get(dayOfTheMonth), get(month)
\* and get(dayOfTheWeek) joined by single spaces, and that text splits on
\* single spaces into exactly five parts, none of them empty.
C20_CanonicalBuild ==
    LET text  == build(heap, expression, "b1")
        parts == Split(text, " ")
    IN  /\ text = Join([i \in 1..Len(MeasureOfTimeMap) |-> CallGet(MeasureOfTimeMap[i]).str], " ")
        /\ Len(parts) = Len(MeasureOfTimeMap)
        /\ \A i \in 1..Len(parts) : Len(parts[i]) > 0

=============================================================================
